---- MODULE Spec2Model ----
(***************************************************************************)
(* A model of main.py: a FastAPI service with the routes GET /,            *)
(* POST /checksum, POST /tokens and GET /form, and the two helpers         *)
(* _checksum_md5 and _generate_tokens_from_text.                           *)
(*                                                                         *)
(* Strings are sequences of Unicode code points, byte strings sequences of *)
(* numbers 0..255.  The digests of hashlib are symbolic: a hash object is  *)
(* the pair of its algorithm and the bytes it was fed, and its hexdigest   *)
(* is that pair with the length of the hexadecimal string.  Two symbolic   *)
(* digests are equal exactly when algorithm and input are equal, i.e. the  *)
(* model idealises MD5 and SHA-256 as collision free.  secrets.token_hex   *)
(* is a nondeterministic choice among sample outputs of the entropy        *)
(* source.                                                                 *)
(*                                                                         *)
(* Spec    : the HTTP service handling up to MaxReqs requests, the steps   *)
(*           of different requests interleaved (sync handlers run on the   *)
(*           framework's thread pool).                                     *)
(* SpecGen : one direct call of _generate_tokens_from_text(text, count),   *)
(*           one loop iteration per step.                                  *)
(***************************************************************************)
EXTENDS Integers, Sequences, FiniteSets, Bags

\* ------------------------------------------------------------------ bounds

\* Number of requests the service receives in one run (Spec).
MaxReqs == 2

\* Largest count given to _generate_tokens_from_text in SpecGen.
MaxCount == 5

\* --------------------------------------------------------- program constants

\* count=5 in tokens_endpoint (and the default of the helper).
TokenCount == 5

\* secrets.token_hex(8)
SaltNBytes == 8

\* -------------------------------------------------------------------- state

VARIABLES
    reqs,   \* the bag of requests received: each with its handler's position,
            \* the handler's locals and, once answered, the response
    call    \* SpecGen: the frame of one call of _generate_tokens_from_text

vars == <<reqs, call>>

\* The requests received so far.
Received == BagToSet(reqs)

\* ------------------------------------------------------------------ strings

\* "-"
Dash == <<45>>

\* "Welcome"
WelcomeWord == <<87, 101, 108, 99, 111, 109, 101>>

\* "mallela sahid": participant_name in welcome and form_page
participant_name == <<109, 97, 108, 108, 101, 108, 97, 32, 115, 97, 104, 105, 100>>

\* "Welcome to the Improvise Python App — built for "
WelcomePrefix ==
    <<87, 101, 108, 99, 111, 109, 101, 32, 116, 111, 32, 116, 104, 101, 32,
      73, 109, 112, 114, 111, 118, 105, 115, 101, 32, 80, 121, 116, 104, 111,
      110, 32, 65, 112, 112, 32, 8212, 32, 98, 117, 105, 108, 116, 32, 102,
      111, 114, 32>>

\* sub occurs in s as a contiguous substring (Python's `sub in s`).
Contains(sub, s) ==
    \E k \in 0..(Len(s) - Len(sub)) :
        \A j \in 1..Len(sub) : s[k + j] = sub[j]

\* str.encode("utf-8") of one code point (1, 2 or 3 bytes).
Utf8Char(c) ==
    IF c < 128 THEN <<c>>
    ELSE IF c < 2048 THEN <<192 + (c \div 64), 128 + (c % 64)>>
    ELSE <<224 + (c \div 4096), 128 + ((c \div 64) % 64), 128 + (c % 64)>>

\* text.encode("utf-8")
RECURSIVE EncodeUtf8(_)
EncodeUtf8(s) ==
    IF s = <<>> THEN <<>> ELSE Utf8Char(Head(s)) \o EncodeUtf8(Tail(s))

\* One lowercase hexadecimal digit, as a code point.
HexChar(n) == IF n < 10 THEN 48 + n ELSE 87 + n

\* bytes.hex(): two lowercase hexadecimal digits per byte.
RECURSIVE HexOf(_)
HexOf(bs) ==
    IF bs = <<>> THEN <<>>
    ELSE <<HexChar(Head(bs) \div 16), HexChar(Head(bs) % 16)>> \o HexOf(Tail(bs))

\* str(i) for i >= 0: the decimal digits of i.
RECURSIVE Str(_)
Str(i) == IF i < 10 THEN <<48 + i>> ELSE Str(i \div 10) \o <<48 + (i % 10)>>

\* ------------------------------------------------------------------ hashlib

\* hashlib.md5(data): the hash object.
Md5(data) == [alg |-> "md5", data |-> data]

\* hashlib.sha256(data): the hash object.
Sha256(data) == [alg |-> "sha256", data |-> data]

\* digest_size of the algorithm, in bytes.
DigestSize(alg) == IF alg = "md5" THEN 16 ELSE IF alg = "sha256" THEN 32 ELSE 0

\* h.hexdigest(): a string of 2 * digest_size lowercase hexadecimal digits,
\* determined by the algorithm and the bytes hashed.
HexDigest(h) == [alg |-> h.alg, data |-> h.data, len |-> 2 * DigestSize(h.alg)]

\* No digest (a field that was not computed).
NoDigest == [alg |-> "none", data |-> <<>>, len |-> 0]

\* ------------------------------------------------------------------ secrets

\* Sample values of one byte of the entropy source.
ByteSamples == {0, 171}

\* secrets.token_bytes(n): the outcomes modelled, n equal bytes of a sample.
TokenBytes(n) == {[k \in 1..n |-> b] : b \in ByteSamples}

\* secrets.token_hex(n): the hex string of n random bytes (2n characters).
token_hex(n) == {HexOf(bs) : bs \in TokenBytes(n)}

\* ------------------------------------------------------------------ helpers

\* The bytes a hash object shared by the requests S was fed.
RECURSIVE FedBytes(_)
FedBytes(S) ==
    IF S = {} THEN <<>>
    ELSE LET x == CHOOSE y \in S : TRUE
         IN  EncodeUtf8(x.body.text) \o FedBytes(S \ {x})

\* Mutant: one module-level hashlib.md5() object that every call updates, so
\* the digest covers the texts of the earlier calls too.
_checksum_md5_shared(text) ==
    HexDigest(Md5(FedBytes({x \in Received : x.cs # NoDigest}) \o EncodeUtf8(text)))

\* Mutant: the text is encoded as Latin-1 (one byte per code point).
_checksum_md5_latin1(text) == HexDigest(Md5(text))

\* def _checksum_md5(text)
_checksum_md5(text) == HexDigest(Md5(EncodeUtf8(text)))

\* Mutant: the index is left out of the hashed string.
TokenInput_noindex(text, i, salt) == text \o Dash \o salt

\* f"{text}-{i}-{salt}"
TokenInput(text, i, salt) == text \o Dash \o Str(i) \o Dash \o salt

\* Mutant: the token is hashed with the checksum's algorithm.
TokenOf_md5(text, i, salt) == HexDigest(Md5(EncodeUtf8(TokenInput(text, i, salt))))

\* The loop body of _generate_tokens_from_text, the salt given.
TokenOf(text, i, salt) == HexDigest(Sha256(EncodeUtf8(TokenInput(text, i, salt))))

\* Mutant: the loop starts at 1 (range(1, count)).
_generate_tokens_from_one(text, count, salts) ==
    [k \in 1..(count - 1) |-> TokenOf(text, k, salts[k])]

\* def _generate_tokens_from_text(text, count), the salts given in drawing
\* order: the token at position i + 1 is the token of iteration i.
_generate_tokens_from_text(text, count, salts) ==
    [k \in 1..count |-> TokenOf(text, k - 1, salts[k])]

\* The salt sequences one call with `count` iterations can draw.
SaltSeqs(count) == [1..count -> token_hex(SaltNBytes)]

\* ----------------------------------------------------------------- requests

\* Sample texts: "" and "hé" (one ASCII and one two-byte character).
Texts == {<<>>, <<104, 233>>}

\* JSON bodies: {"text": "<string>"}, {} (no text), {"text": null}, {"text": 5}.
JsonBodies ==
    {[kind |-> "json", text_type |-> "str", text |-> t] : t \in Texts}
    \cup {[kind |-> "json", text_type |-> ty, text |-> <<>>] :
              ty \in {"missing", "null", "number"}}

\* Form-encoded bodies: text=<string>.
FormBodies == {[kind |-> "form", text_type |-> "str", text |-> t] : t \in Texts}

NoBody == [kind |-> "none", text_type |-> "missing", text |-> <<>>]

\* The requests clients send: every route with its bodies, POST /form, and a
\* path no route has.
Requests ==
    {[method |-> "GET", path |-> p, body |-> NoBody] : p \in {"/", "/form"}}
    \cup {[method |-> "POST", path |-> p, body |-> b] :
              p \in {"/checksum", "/tokens"}, b \in JsonBodies}
    \cup {[method |-> "POST", path |-> "/form", body |-> b] : b \in FormBodies}
    \cup {[method |-> "GET", path |-> "/missing", body |-> NoBody]}

\* Mutant: form_page is registered for POST as well.
Routes_post_form ==
    {[method |-> "GET", path |-> "/", endpoint |-> "welcome", model |-> "none"],
     [method |-> "POST", path |-> "/checksum", endpoint |-> "checksum_endpoint",
      model |-> "TextOnly"],
     [method |-> "POST", path |-> "/tokens", endpoint |-> "tokens_endpoint",
      model |-> "TextOnly"],
     [method |-> "GET", path |-> "/form", endpoint |-> "form_page", model |-> "none"],
     [method |-> "POST", path |-> "/form", endpoint |-> "form_page", model |-> "none"]}

\* The routes the decorators register: method, path, endpoint, body model.
Routes ==
    {[method |-> "GET", path |-> "/", endpoint |-> "welcome", model |-> "none"],
     [method |-> "POST", path |-> "/checksum", endpoint |-> "checksum_endpoint",
      model |-> "TextOnly"],
     [method |-> "POST", path |-> "/tokens", endpoint |-> "tokens_endpoint",
      model |-> "TextOnly"],
     [method |-> "GET", path |-> "/form", endpoint |-> "form_page", model |-> "none"]}

\* Mutant: any value of the field text is accepted (coerced to a string).
TextOnly_lax(body) == body.kind = "json" /\ body.text_type # "missing"

\* class TextOnly(BaseModel): text: str.  The body validates when it is a
\* JSON object whose field text is present and a string.
TextOnly(body) == body.kind = "json" /\ body.text_type = "str"

\* ---------------------------------------------------------------- responses

NoResp ==
    [status |-> 0, fields |-> {}, message |-> <<>>, text |-> <<>>,
     checksum |-> NoDigest, tokens |-> <<>>, page |-> "none", context |-> {},
     error |-> "none"]

\* A JSON response with the given status and the given fields set.
JsonResp(status, fields, message, text, checksum, tokens) ==
    [NoResp EXCEPT !.status = status, !.fields = fields, !.message = message,
                   !.text = text, !.checksum = checksum, !.tokens = tokens]

\* The framework's answer to a body that fails validation: 422 with the
\* offending field.
ValidationError(field) == [NoResp EXCEPT !.status = 422, !.error = field]

\* The framework's answer to a path registered under other methods only.
MethodNotAllowed == [NoResp EXCEPT !.status = 405]

\* The framework's answer to a path no route has.
NotFound == [NoResp EXCEPT !.status = 404]

\* ----------------------------------------------------------------- requests in flight

\* A request as it arrives.
NewReq(q) ==
    [pc |-> "pending", method |-> q.method, path |-> q.path, body |-> q.body,
     cs |-> NoDigest, salts |-> <<>>, resp |-> NoResp]

IdleCall ==
    [pc |-> "idle", text |-> <<>>, count |-> 0, i |-> 0, salts |-> <<>>,
     tokens |-> <<>>, draws |-> 0]

\* The state of the service after the module is imported: no request yet.
Init ==
    /\ reqs = EmptyBag
    /\ call = IdleCall

\* Mutant: the body is kept in a module-level variable that another request
\* in flight has overwritten.
body_text_shared(e) ==
    LET others == {x \in Received : x.body.text_type = "str"
                                     /\ x.body.text # e.body.text}
    IN  IF others = {} THEN e.body.text
        ELSE (CHOOSE x \in others : TRUE).body.text

\* body.text as the handler of request e reads it.
body_text(e) == e.body.text

\* Mutant: the message without its first word.
welcome_message_hello == <<72, 105, 32>> \o participant_name

\* f"Welcome to the Improvise Python App — built for {participant_name}"
welcome_message == WelcomePrefix \o participant_name

\* Request e moves on to e2.
Becomes(e, e2) ==
    reqs' = (reqs (-) SetToBag({e})) (+) SetToBag({e2})

\* The handler of request e returns resp.
Respond(e, resp) == Becomes(e, [e EXCEPT !.pc = "responded", !.resp = resp])

\* A client sends request q.
Arrive(q) ==
    /\ BagCardinality(reqs) < MaxReqs
    /\ reqs' = reqs (+) SetToBag({NewReq(q)})
    /\ UNCHANGED call

\* The framework routes request e and validates its body against the
\* endpoint's body model.
Dispatch(e) ==
    /\ e.pc = "pending"
    /\ LET onPath == {rt \in Routes : rt.path = e.path}
           match == {rt \in onPath : rt.method = e.method}
       IN  IF onPath = {} THEN Respond(e, NotFound)
           ELSE IF match = {} THEN Respond(e, MethodNotAllowed)
           ELSE LET rt == CHOOSE x \in match : TRUE
                IN  IF rt.model = "TextOnly" /\ ~TextOnly(e.body)
                    THEN Respond(e, ValidationError("text"))
                    ELSE Becomes(e, [e EXCEPT !.pc = rt.endpoint])
    /\ UNCHANGED call

\* def welcome()
welcome(e) ==
    /\ e.pc = "welcome"
    /\ Respond(e, JsonResp(200, {"message"}, welcome_message,
                           <<>>, NoDigest, <<>>))
    /\ UNCHANGED call

\* def checksum_endpoint(body)
checksum_endpoint(e) ==
    /\ e.pc = "checksum_endpoint"
    /\ LET cs == _checksum_md5(body_text(e))
       IN  Becomes(e, [e EXCEPT !.pc = "responded", !.cs = cs,
                          !.resp = JsonResp(200, {"text", "checksum"}, <<>>,
                                            body_text(e), cs, <<>>)])
    /\ UNCHANGED call

\* def tokens_endpoint(body): checksum = _checksum_md5(body.text)
tokens_endpoint_checksum(e) ==
    /\ e.pc = "tokens_endpoint"
    /\ Becomes(e, [e EXCEPT !.pc = "tokens_generate",
                            !.cs = _checksum_md5(body_text(e))])
    /\ UNCHANGED call

\* def tokens_endpoint(body): tokens = _generate_tokens_from_text(...) and
\* the return of TokensResponse(tokens, checksum)
tokens_endpoint_tokens(e) ==
    /\ e.pc = "tokens_generate"
    /\ \E salts \in SaltSeqs(TokenCount) :
           Becomes(e, [e EXCEPT !.pc = "responded", !.salts = salts,
               !.resp = JsonResp(200, {"tokens", "checksum"}, <<>>, <<>>, e.cs,
                   _generate_tokens_from_text(body_text(e), TokenCount, salts))])
    /\ UNCHANGED call

\* def form_page(request)
form_page(e) ==
    /\ e.pc = "form_page"
    /\ Respond(e, [NoResp EXCEPT !.status = 200, !.page = "form.html",
                                 !.context = {"request", "participant"}])
    /\ UNCHANGED call

Next ==
    \/ \E q \in Requests : Arrive(q)
    \/ \E e \in Received : Dispatch(e)
    \/ \E e \in Received : welcome(e)
    \/ \E e \in Received : checksum_endpoint(e)
    \/ \E e \in Received : tokens_endpoint_checksum(e)
    \/ \E e \in Received : tokens_endpoint_tokens(e)
    \/ \E e \in Received : form_page(e)

Spec == Init /\ [][Next]_vars

\* ------------------------------------------- _generate_tokens_from_text alone

\* The inputs of the call: a text and a count.
InitGen ==
    /\ reqs = EmptyBag
    /\ \E t \in Texts, n \in 0..MaxCount :
           call = [IdleCall EXCEPT !.pc = "loop", !.text = t, !.count = n]

\* Mutant: the salt is drawn once, before the loop, and reused.
DrawSalt_once(c) ==
    IF c.draws = 0
    THEN {[salt |-> s, draws |-> 1] : s \in token_hex(SaltNBytes)}
    ELSE {[salt |-> c.salts[1], draws |-> c.draws]}

\* salt = secrets.token_hex(8) in the frame c: the salt and number of draws.
DrawSalt(c) ==
    {[salt |-> s, draws |-> c.draws + 1] : s \in token_hex(SaltNBytes)}

\* One iteration of `for i in range(count)`.
GenIter ==
    /\ call.pc = "loop"
    /\ call.i < call.count
    /\ \E d \in DrawSalt(call) :
           call' = [call EXCEPT !.i = call.i + 1,
                                !.salts = Append(call.salts, d.salt),
                                !.draws = d.draws,
                                !.tokens = Append(call.tokens,
                                    TokenOf(call.text, call.i, d.salt))]
    /\ UNCHANGED reqs

\* range(count) is exhausted: return tokens.
GenReturn ==
    /\ call.pc = "loop"
    /\ call.i >= call.count
    /\ call' = [call EXCEPT !.pc = "returned"]
    /\ UNCHANGED reqs

NextGen == GenIter \/ GenReturn

\* The interpreter runs the loop to its end.
SpecGen == InitGen /\ [][NextGen]_vars /\ WF_vars(NextGen)

\* ------------------------------------------------------------------- claims

\* The requests answered so far.
Answered == {e \in Received : e.pc = "responded"}

\* Request e is a POST to path whose JSON body has a string field text.
PostsText(e, path) ==
    e.method = "POST" /\ e.path = path /\ e.body.kind = "json"
                      /\ e.body.text_type = "str"

\* Request e is a POST to path whose JSON body has no string field text.
PostsNoText(e, path) ==
    e.method = "POST" /\ e.path = path /\ e.body.kind = "json"
                      /\ e.body.text_type # "str"

\* The MD5 hex digest of the UTF-8 bytes of text.
Md5Hex(text) == HexDigest(Md5(EncodeUtf8(text)))

\* The status request e gets when it is the only request.
AloneStatus(e) ==
    IF e.method = "GET" /\ e.path \in {"/", "/form"} THEN 200
    ELSE IF e.method = "POST" /\ e.path \in {"/checksum", "/tokens"}
         THEN (IF e.body.kind = "json" /\ e.body.text_type = "str"
               THEN 200 ELSE 422)
    ELSE IF e.path \in {"/", "/form", "/checksum", "/tokens"} THEN 405
    ELSE 404

\* The checksum field of the response to e when it is the only request.
AloneChecksum(e) ==
    IF PostsText(e, "/checksum") \/ PostsText(e, "/tokens")
    THEN Md5Hex(e.body.text) ELSE NoDigest

\* The text field of the response to e when it is the only request.
AloneText(e) == IF PostsText(e, "/checksum") THEN e.body.text ELSE <<>>

\* The response to e is what e gets when it is the only request.
AsAlone(e) ==
    /\ e.resp.status = AloneStatus(e)
    /\ e.resp.checksum = AloneChecksum(e)
    /\ e.resp.text = AloneText(e)

C3_ValidationError ==
    \A e \in Received :
        PostsNoText(e, "/checksum") \/ PostsNoText(e, "/tokens") =>
            /\ e.cs = NoDigest
            /\ e.salts = <<>>
            /\ e.pc \in {"pending", "responded"}
            /\ e.pc = "responded" =>
                   /\ e.resp.status \in 400..499
                   /\ e.resp.error = "text"
                   /\ e.resp.checksum = NoDigest
                   /\ e.resp.tokens = <<>>
                   /\ \A o \in Answered \ {e} : AsAlone(o)

\* C3 happens: a /tokens request with a non-string text was rejected beside
\* a valid one, which was answered with its tokens.
C3_Witness ==
    \E e, o \in Answered :
        /\ PostsNoText(e, "/tokens") /\ e.body.text_type = "number"
        /\ e.resp.status = 422
        /\ PostsText(o, "/tokens") /\ o.resp.status = 200

C5_ChecksumDeterministic ==
    \A e1, e2 \in Received :
        /\ e1.cs # NoDigest /\ e2.cs # NoDigest
        /\ e1.body.text = e2.body.text
        => /\ e1.cs = e2.cs
           /\ e1.pc = "responded" /\ e2.pc = "responded"
                  => e1.resp.checksum = e2.resp.checksum

\* C5 happens: the checksum of one text was computed by /checksum and by
\* /tokens.
C5_Witness ==
    \E e1, e2 \in Answered :
        /\ PostsText(e1, "/checksum") /\ PostsText(e2, "/tokens")
        /\ e1.body.text = <<104, 233>> /\ e2.body.text = <<104, 233>>
        /\ e1.cs # NoDigest /\ e2.cs # NoDigest

\* The tokens of the answered call e are pairwise distinct.
PairwiseDistinct(e) ==
    \A j, k \in 1..Len(e.resp.tokens) :
        j # k => e.resp.tokens[j] # e.resp.tokens[k]

\* Two answered calls of token generation: two requests of the bag, or one
\* request the bag holds twice.
TwoCalls(e1, e2) ==
    /\ PostsText(e1, "/tokens") /\ PostsText(e2, "/tokens")
    /\ e1.pc = "responded" /\ e2.pc = "responded"
    /\ e1 # e2 \/ CopiesIn(e1, reqs) >= 2

\* C6 as stated: no two calls with the same text return the same sequence of
\* tokens, and the 5 tokens of one call are pairwise distinct.
C6_Original ==
    /\ \A e \in Answered : PostsText(e, "/tokens") => PairwiseDistinct(e)
    /\ \A e1, e2 \in Received :
           TwoCalls(e1, e2) /\ e1.body.text = e2.body.text
               => e1.resp.tokens # e2.resp.tokens

\* C6 amended: the 5 tokens of one call are pairwise distinct, and two calls
\* with the same text return the same token at a position exactly when they
\* drew the same salt there: the sequences differ unless all 5 draws agree.
C6_TokensDifferWithSalts ==
    /\ \A e \in Answered : PostsText(e, "/tokens") => PairwiseDistinct(e)
    /\ \A e1, e2 \in Received :
           TwoCalls(e1, e2) /\ e1.body.text = e2.body.text =>
               /\ \A k \in 1..5 :
                      (e1.resp.tokens[k] = e2.resp.tokens[k])
                          <=> (e1.salts[k] = e2.salts[k])
               /\ (e1.resp.tokens = e2.resp.tokens) <=> (e1.salts = e2.salts)

\* C6 happens: two calls with the same text drew different salts, and one
\* call drew the same salt twice.
C6_Witness ==
    \E e1, e2 \in Answered :
        /\ TwoCalls(e1, e2) /\ e1.body.text = e2.body.text
        /\ e1.salts # e2.salts
        /\ e1.salts[1] = e1.salts[2]

\* C7: every checksum is a 32-character MD5 hex digest and every token a
\* 64-character SHA-256 hex digest, whatever the text, and no token of a
\* /tokens response equals the checksum of that response.
C7_DigestFormats ==
    \A e \in Received :
        /\ e.cs # NoDigest => e.cs.alg = "md5" /\ e.cs.len = 32
        /\ e.pc = "responded" =>
               /\ "checksum" \in e.resp.fields =>
                      e.resp.checksum.alg = "md5" /\ e.resp.checksum.len = 32
               /\ \A k \in 1..Len(e.resp.tokens) :
                      /\ e.resp.tokens[k].alg = "sha256"
                      /\ e.resp.tokens[k].len = 64
                      /\ e.resp.tokens[k] # e.resp.checksum

\* C7 happens: /tokens was answered for the empty text and for a non-ASCII one.
C7_Witness ==
    \E e1, e2 \in Answered :
        /\ PostsText(e1, "/tokens") /\ e1.body.text = <<>>
        /\ PostsText(e2, "/tokens") /\ e2.body.text = <<104, 233>>
        /\ Len(e1.resp.tokens) = 5 /\ Len(e2.resp.tokens) = 5

\* C8: whatever was received before, valid or not, GET / is answered with
\* status 200 and a JSON body whose message contains "Welcome", and a GET /
\* not yet answered can be.
C8_Welcome ==
    \A e \in Received :
        e.method = "GET" /\ e.path = "/" =>
            /\ e.body = NoBody
            /\ e.pc = "pending" => ENABLED Dispatch(e)
            /\ e.pc # "pending" /\ e.pc # "responded" => ENABLED welcome(e)
            /\ e.pc = "responded" =>
                   /\ e.resp.status = 200
                   /\ e.resp.fields = {"message"}
                   /\ Contains(WelcomeWord, e.resp.message)

\* C8 happens: GET / was answered after an invalid request was rejected.
C8_Witness ==
    \E e, o \in Answered :
        /\ e.method = "GET" /\ e.path = "/" /\ e.resp.status = 200
        /\ o.resp.status = 422

\* What the call has to return: count tokens, the one at position i + 1 the
\* SHA-256 digest of text-i-salt with the salt drawn in iteration i.
ReturnsTokens ==
    /\ Len(call.tokens) = call.count
    /\ Len(call.salts) = call.count
    /\ call.draws = call.count
    /\ \A i \in 0..(call.count - 1) :
           /\ Len(call.salts[i + 1]) = 16
           /\ call.tokens[i + 1] =
                  HexDigest(Sha256(EncodeUtf8(
                      call.text \o Dash \o Str(i) \o Dash \o call.salts[i + 1])))
    /\ call.tokens =
           _generate_tokens_from_text(call.text, call.count, call.salts)

Step(e) ==
    \/ Dispatch(e)
    \/ welcome(e)
    \/ checksum_endpoint(e)
    \/ tokens_endpoint_checksum(e)
    \/ tokens_endpoint_tokens(e)
    \/ form_page(e)

\* C10: under every interleaving the response of each request (status, text,
\* checksum) is the one it gets when handled alone, the locals of a handler
\* depend on its own request only, and every request not yet answered can
\* take its next step whatever the other requests are doing.
C10_Independent ==
    \A e \in Received :
        /\ e.cs # NoDigest => e.cs = AloneChecksum(e)
        /\ e.pc = "responded" => AsAlone(e)
        /\ e.pc # "responded" => ENABLED Step(e)

\* C10 happens: a request was answered while another, with another text, was
\* in the middle of its handler.
C10_Witness ==
    \E e1, e2 \in Received :
        /\ e1.pc = "tokens_generate" /\ e1.cs # NoDigest
        /\ e2.pc = "responded" /\ PostsText(e2, "/checksum")
        /\ e1.body.text # e2.body.text

====
